---- MODULE Spec2Model ----
(***************************************************************************)
(* A model of the retrieval pipeline of rag_basic: the fixed-window        *)
(* chunker (samples/rag_basic/chunker.py), the inline chunking loop of the *)
(* quickstart pipeline (samples/quickstart/rag_basic.py), the batched     *)
(* embedding client (samples/rag_basic/embedder.py, store_manager.py), the *)
(* scripts that build a Chroma store in the persist directory              *)
(* (build_or_load_vectorstore, store_manager.py main), the prompt builders *)
(* (build_prompt, make_prompt), the query entry points (rag_query,         *)
(* llm_with_rag.py main, test_rag) and the text extractors                 *)
(* (samples/rag_basic/extractor.py).  Spec runs one script at a time;      *)
(* RebuildDuringQuerySpec runs store_manager.py and llm_with_rag.py as two *)
(* processes over the same persist directory.                              *)
(*                                                                         *)
(* A text is a sequence of one-character strings.  Python's 0-based,       *)
(* half-open slice text[a:b] is SubSeq(text, a+1, b).                      *)
(***************************************************************************)
EXTENDS Integers, Sequences, FiniteSets, TLC

VARIABLES
    \* ---- simple_chunk_text and its caller, chunker.py main
    text,          \* the text handed to simple_chunk_text
    chunk_size,    \* its chunk_size argument
    overlap,       \* its overlap argument
    pc,            \* where the call stands
    start,         \* the local start
    chunks,        \* the local chunks
    windows,       \* history: <<start, end>> of every window taken
    iters,         \* history: number of loop iterations taken
    out_list,      \* main's out_list
    \* ---- the quickstart pipeline's document reading and chunking loop
    files,         \* file name -> content of the data directory
    CHUNK_SIZE,    \* the module constants, as configured
    CHUNK_OVERLAP,
    q_pc,          \* where the script stands
    q_file,        \* position of the reading loop in file_paths
    raw_docs,      \* the documents read
    q_doc,         \* position of the chunking loop in raw_docs
    q_start,       \* start of the chunking loop
    q_idx,         \* idx of the chunking loop
    q_chunks,      \* the module-level chunks
    q_metadatas,   \* the module-level metadatas
    q_iters,       \* history: iterations of the while loop for the current doc
    \* ---- embed_text / QwenEmbeddings.embed_documents
    e_entry,       \* which entry point is called, and how
    e_texts,       \* the texts to embed (after wrapping a single string)
    e_pc,          \* where the call stands
    e_i,           \* the loop variable i of the batching loop
    embeddings,    \* the local embeddings
    e_calls,       \* history: the batches sent to the provider, in order
    e_faithful,    \* history: every answer so far had one vector per text, in order
    e_result,      \* what the call returned
    \* ---- the persist directory and the scripts that build a store in it
    disk,          \* the persist directory: absent, a usable store, or a corrupt one
    b_script,      \* which builder runs: build_or_load_vectorstore or store_manager
    b_pc,          \* where the builder stands
    b_call,        \* number of the current call of the builder
    b_key,         \* QWEN_API_KEY is set for this call
    b_file,        \* the chunks file of store_manager exists
    b_chunks,      \* the chunks given to this call, as entries to index
    b_response,    \* the answer typed at store_manager's prompt
    b_vect,        \* the entries of the store object vect
    b_disk0,       \* history: the persist directory when this call began
    b_log,         \* history: what this call did to the store, in order
    b_prev,        \* history: outcome of every earlier call, in order
    \* ---- the query scripts: rag_query, llm_with_rag main, test_rag
    r_script,      \* which query entry point runs
    r_pc,          \* where it stands
    r_key,         \* QWEN_API_KEY is set
    r_query,       \* the user's question
    r_docs,        \* the documents the retriever returned
    r_prompt,      \* the prompt assembled
    r_answer,      \* what the language-model call gave back
    r_result,      \* what the entry point returned
    r_log,         \* history: the steps taken, in order
    \* ---- extract_file and the format extractors
    x_entry,       \* the function called: extract_file or one extractor
    x_ext,         \* the extension of the path, as written
    x_exists,      \* the file exists
    x_content,     \* the text the file holds
    x_pc,          \* where the call stands
    x_failed,      \* history: the file was missing or the library raised
    x_result       \* the string returned

chunkerVars == <<text, chunk_size, overlap, pc, start, chunks, windows, iters, out_list>>
quickVars == <<files, CHUNK_SIZE, CHUNK_OVERLAP, q_pc, q_file, raw_docs, q_doc, q_start,
               q_idx, q_chunks, q_metadatas, q_iters>>
embedVars == <<e_entry, e_texts, e_pc, e_i, embeddings, e_calls, e_faithful, e_result>>
storeVars == <<disk, b_script, b_pc, b_call, b_key, b_file, b_chunks, b_response, b_vect,
               b_disk0, b_log, b_prev>>
queryVars == <<r_script, r_pc, r_key, r_query, r_docs, r_prompt, r_answer, r_result, r_log>>
builderVars == <<b_script, b_pc, b_call, b_key, b_file, b_chunks, b_response, b_vect,
                 b_disk0, b_log, b_prev>>
extractVars == <<x_entry, x_ext, x_exists, x_content, x_pc, x_failed, x_result>>
vars == <<chunkerVars, quickVars, embedVars, storeVars, queryVars, extractVars>>

-----------------------------------------------------------------------------
(* Bounds of the model *)

\* longest text handed to simple_chunk_text
MaxLen == 4
\* largest chunk_size / overlap tried
MaxSize == 3
\* longest file content of the quickstart data directory
MaxDocLen == 3
\* largest number of texts handed to the embedding client
MaxTexts == 21

Chars == {"A", "B", " "}
\* the characters of the quickstart files
DocChars == {"A", " "}
Whitespace == {" "}

Min(a, b) == IF a < b THEN a ELSE b

SetMin(S) == CHOOSE x \in S : \A y \in S : x <= y
SetMax(S) == CHOOSE x \in S : \A y \in S : y <= x

\* all sequences over S of length at most n
SeqsUpTo(S, n) == UNION {[1..k -> S] : k \in 0..n}

-----------------------------------------------------------------------------
(* Python string primitives *)

\* s[a:b] for 0 <= a, 0 <= b
Slice(s, a, b) == SubSeq(s, a + 1, Min(b, Len(s)))

\* the 0-based offsets of the characters str.strip() keeps: <<first, last + 1>>,
\* and <<0, 0>> when nothing but whitespace is there
StripSpan(s) ==
    LET keep == {i \in 1..Len(s) : s[i] \notin Whitespace}
    IN  IF keep = {} THEN <<0, 0>> ELSE <<SetMin(keep) - 1, SetMax(keep)>>

\* str.strip()
Strip(s) == Slice(s, StripSpan(s)[1], StripSpan(s)[2])

-----------------------------------------------------------------------------
(* simple_chunk_text(text, chunk_size, overlap)  --  chunker.py *)


\* a variant that forgets the overlap check
ArgsRejectedSizeOnly(size, ov) == size <= 0

\* the two parameter checks that raise ValueError
ArgsRejected(size, ov) == size <= 0 \/ ov >= size


\* a variant that does not clamp the window to the text
WindowEndNoClamp(st, size, L) == st + size

\* end = min(start + chunk_size, L)
WindowEnd(st, size, L) == Min(st + size, L)


\* a variant that forgets .strip()
WindowChunkNoStrip(txt, st, en) == Slice(txt, st, en)

\* chunk = text[start:end].strip()
WindowChunk(txt, st, en) == Strip(Slice(txt, st, en))


\* a variant with the sign of the overlap wrong
NextStartPlus(en, ov) == IF en + ov < 0 THEN 0 ELSE en + ov

\* a variant without the clamp to 0
NextStartNoClamp(en, ov) == en - ov

\* a variant that ignores the overlap
NextStartNoOverlap(en, ov) == IF en < 0 THEN 0 ELSE en

\* start = end - overlap; if start < 0: start = 0
NextStart(en, ov) == IF en - ov < 0 THEN 0 ELSE en - ov


\* a variant without the "end == L" test
BreakCondStartOnly(st, en, L) == st >= L

\* if (start >= L) or (end == L): break
BreakCond(st, en, L) == st >= L \/ en = L

\* the list simple_chunk_text returns once its loop stands at start st
RECURSIVE ChunksFrom(_, _, _, _)
ChunksFrom(txt, size, ov, st) ==
    IF ~(st < Len(txt))
    THEN <<>>
    ELSE LET en    == WindowEnd(st, size, Len(txt))
             chunk == WindowChunk(txt, st, en)
             st2   == NextStart(en, ov)
             head  == IF chunk # <<>> THEN <<chunk>> ELSE <<>>
         IN  IF BreakCond(st2, en, Len(txt))
             THEN head
             ELSE head \o ChunksFrom(txt, size, ov, st2)

\* simple_chunk_text(text, chunk_size, overlap) for parameters it accepts
simple_chunk_text(txt, size, ov) == ChunksFrom(txt, size, ov, 0)

\* the call: the parameter checks, then chunks = [], start = 0
ChunkCall ==
    /\ pc = "call"
    /\ IF ArgsRejected(chunk_size, overlap)
         THEN pc' = "ValueError"
         ELSE pc' = "loop"
    /\ UNCHANGED <<text, chunk_size, overlap, start, chunks, windows, iters, out_list>>
    /\ UNCHANGED <<quickVars, embedVars, storeVars, queryVars, extractVars>>

\* one iteration of the while loop
ChunkStep ==
    /\ pc = "loop"
    /\ start < Len(text)
    /\ LET L     == Len(text)
           en    == WindowEnd(start, chunk_size, L)
           chunk == WindowChunk(text, start, en)
           st2   == NextStart(en, overlap)
       IN  /\ chunks' = IF chunk # <<>> THEN Append(chunks, chunk) ELSE chunks
           /\ start' = st2
           /\ windows' = Append(windows, <<start, en>>)
           /\ iters' = iters + 1
           /\ pc' = IF BreakCond(st2, en, L) THEN "returned" ELSE "loop"
    /\ UNCHANGED <<text, chunk_size, overlap, out_list>>
    /\ UNCHANGED <<quickVars, embedVars, storeVars, queryVars, extractVars>>

\* the while condition fails: return chunks
ChunkLoopExit ==
    /\ pc = "loop"
    /\ ~(start < Len(text))
    /\ pc' = "returned"
    /\ UNCHANGED <<text, chunk_size, overlap, start, chunks, windows, iters, out_list>>
    /\ UNCHANGED <<quickVars, embedVars, storeVars, queryVars, extractVars>>

(* chunker.py main, after chunks_simple = simple_chunk_text(txt, ...) *)

\* the report: len(chunks_simple), and sum(len(c)) / len(chunks_simple)
MainReport ==
    /\ pc = "returned"
    /\ pc' = IF Len(chunks) = 0 THEN "ZeroDivisionError" ELSE "reported"
    /\ UNCHANGED <<text, chunk_size, overlap, start, chunks, windows, iters, out_list>>
    /\ UNCHANGED <<quickVars, embedVars, storeVars, queryVars, extractVars>>

\* out_list.append({"id": i, "source": ..., "text": c}) for i, c in enumerate(chunks_simple)
MainOutList(cs) ==
    [i \in 1..Len(cs) |-> [id |-> i - 1, source |-> "test_user_manual.pdf", text |-> cs[i]]]

MainSave ==
    /\ pc = "reported"
    /\ out_list' = MainOutList(chunks)
    /\ pc' = "saved"
    /\ UNCHANGED <<text, chunk_size, overlap, start, chunks, windows, iters>>
    /\ UNCHANGED <<quickVars, embedVars, storeVars, queryVars, extractVars>>

\* the worked example of the chunker's contract: "AAAA BBBB CCCC", size 5, overlap 1
ScenarioText ==
    <<"A", "A", "A", "A", " ", "B", "B", "B", "B", " ", "C", "C", "C", "C">>

ChunkerInit ==
    /\ \/ /\ text \in SeqsUpTo(Chars, MaxLen)
          /\ chunk_size \in 0..MaxSize
          /\ overlap \in -1..MaxSize
       \/ /\ text = ScenarioText
          /\ chunk_size = 5
          /\ overlap = 1
    /\ pc = "call"
    /\ start = 0
    /\ chunks = <<>>
    /\ windows = <<>>
    /\ iters = 0
    /\ out_list = <<>>

\* the chunker is not running
ChunkerIdle ==
    /\ text = <<>>
    /\ chunk_size = 1
    /\ overlap = 0
    /\ pc = "idle"
    /\ start = 0
    /\ chunks = <<>>
    /\ windows = <<>>
    /\ iters = 0
    /\ out_list = <<>>


-----------------------------------------------------------------------------
(* quickstart/rag_basic.py: reading the data directory, then the chunking loop *)

\* the paths glob() can return, in its order: *.md first, then *.txt
FilePaths == <<"a.md", "b.txt">>

\* the content of a file whose bytes are not UTF-8 (open/read raises UnicodeDecodeError)
Undecodable == <<"0xFF">>

\* one pass of "for p in file_paths": skip an empty file, exit on a decoding error
QReadFile ==
    /\ q_pc = "read"
    /\ q_file <= Len(files)
    /\ LET content == files[q_file]
       IN  IF content = Undecodable
             THEN /\ q_pc' = "exit"
                  /\ UNCHANGED <<raw_docs, q_file>>
             ELSE /\ raw_docs' = IF Strip(content) = <<>>
                                   THEN raw_docs
                                   ELSE Append(raw_docs,
                                               [text |-> content, source |-> FilePaths[q_file]])
                  /\ q_file' = q_file + 1
                  /\ q_pc' = "read"
    /\ UNCHANGED <<files, CHUNK_SIZE, CHUNK_OVERLAP, q_doc, q_start, q_idx, q_chunks,
                   q_metadatas, q_iters>>
    /\ UNCHANGED <<chunkerVars, embedVars, storeVars, queryVars, extractVars>>

\* after the reading loop: exit when nothing was read (or glob found nothing)
QReadDone ==
    /\ q_pc = "read"
    /\ q_file > Len(files)
    /\ q_pc' = IF raw_docs = <<>> THEN "exit" ELSE "chunk"
    /\ UNCHANGED <<files, CHUNK_SIZE, CHUNK_OVERLAP, q_file, raw_docs, q_doc, q_start, q_idx,
                   q_chunks, q_metadatas, q_iters>>
    /\ UNCHANGED <<chunkerVars, embedVars, storeVars, queryVars, extractVars>>

\* "for doc in raw_docs": start = 0, idx = 0
QDocStart ==
    /\ q_pc = "chunk"
    /\ q_doc <= Len(raw_docs)
    /\ q_start' = 0
    /\ q_idx' = 0
    /\ q_iters' = 0
    /\ q_pc' = "while"
    /\ UNCHANGED <<files, CHUNK_SIZE, CHUNK_OVERLAP, q_file, raw_docs, q_doc, q_chunks,
                   q_metadatas>>
    /\ UNCHANGED <<chunkerVars, embedVars, storeVars, queryVars, extractVars>>

\* end = min(start + CHUNK_SIZE, len(txt))
QWindowEnd(st, size, L) == Min(st + size, L)

\* chunk_text = txt[start:end].strip()
QWindowChunk(txt, st, en) == Strip(Slice(txt, st, en))

\* a variant that numbers the fragments across all documents
NewMetaGlobal(src, idx) == [source |-> src, chunk_index |-> Len(q_chunks)]

\* meta = {"source": doc["source"], "chunk_index": idx}
NewMeta(src, idx) == [source |-> src, chunk_index |-> idx]

\* a variant without the "> start" guard
QNextStartNoGuard(st, en, ov) == en - ov

\* start = end - CHUNK_OVERLAP if end - CHUNK_OVERLAP > start else end
QNextStart(st, en, ov) == IF en - ov > st THEN en - ov ELSE en

\* one evaluation of "while start < len(txt)" and, when it holds, one iteration
QChunkStep ==
    /\ q_pc = "while"
    /\ LET txt        == raw_docs[q_doc].text
           en         == QWindowEnd(q_start, CHUNK_SIZE, Len(txt))
           chunk_text == QWindowChunk(txt, q_start, en)
           st2        == QNextStart(q_start, en, CHUNK_OVERLAP)
       IN  IF ~(q_start < Len(txt)) \/ chunk_text = <<>>
             THEN \* the loop ends, or "if not chunk_text: break"
                  /\ q_pc' = "chunk"
                  /\ q_doc' = q_doc + 1
                  /\ q_iters' = IF q_start < Len(txt) THEN q_iters + 1 ELSE q_iters
                  /\ UNCHANGED <<q_start, q_idx, q_chunks, q_metadatas>>
             ELSE /\ q_chunks' = Append(q_chunks, chunk_text)
                  /\ q_metadatas' = Append(q_metadatas,
                                           NewMeta(raw_docs[q_doc].source, q_idx))
                  /\ q_idx' = q_idx + 1
                  /\ q_start' = st2
                  /\ q_iters' = q_iters + 1
                  /\ IF st2 >= Len(txt)
                       THEN q_pc' = "chunk" /\ q_doc' = q_doc + 1
                       ELSE q_pc' = "while" /\ q_doc' = q_doc
    /\ UNCHANGED <<files, CHUNK_SIZE, CHUNK_OVERLAP, q_file, raw_docs>>
    /\ UNCHANGED <<chunkerVars, embedVars, storeVars, queryVars, extractVars>>

\* every document is chunked
QDocsDone ==
    /\ q_pc = "chunk"
    /\ q_doc > Len(raw_docs)
    /\ q_pc' = "chunked"
    /\ UNCHANGED <<files, CHUNK_SIZE, CHUNK_OVERLAP, q_file, raw_docs, q_doc, q_start, q_idx,
                   q_chunks, q_metadatas, q_iters>>
    /\ UNCHANGED <<chunkerVars, embedVars, storeVars, queryVars, extractVars>>

QuickInit ==
    /\ \E k \in 0..Len(FilePaths) :
          files \in [1..k -> SeqsUpTo(DocChars, MaxDocLen) \cup {Undecodable}]
    /\ CHUNK_SIZE \in 1..MaxSize
    /\ CHUNK_OVERLAP \in -1..(MaxSize + 1)
    /\ q_pc = "read"
    /\ q_file = 1
    /\ raw_docs = <<>>
    /\ q_doc = 1
    /\ q_start = 0
    /\ q_idx = 0
    /\ q_chunks = <<>>
    /\ q_metadatas = <<>>
    /\ q_iters = 0

\* the quickstart script is not running
QuickIdle ==
    /\ files = <<>>
    /\ CHUNK_SIZE = 1
    /\ CHUNK_OVERLAP = 0
    /\ q_pc = "idle"
    /\ q_file = 1
    /\ raw_docs = <<>>
    /\ q_doc = 1
    /\ q_start = 0
    /\ q_idx = 0
    /\ q_chunks = <<>>
    /\ q_metadatas = <<>>
    /\ q_iters = 0


-----------------------------------------------------------------------------
(* embed_text (embedder.py) and QwenEmbeddings.embed_documents (store_manager.py) *)

\* the batch limit of both files
DEFAULT_TOP_RERANK == 10

\* the vector the embedding model assigns to a text
Vec(t) == [embedding_of |-> t]

\* what a provider that keeps its contract answers to a batch: res.data, one item
\* per input, in input order
Faithful(batch) == [k \in 1..Len(batch) |-> Vec(batch[k])]

\* what the provider may answer: the faithful answer, one vector too few, or one
\* vector too many
ProviderAnswers(batch) ==
    {Faithful(batch), Append(Faithful(batch), Vec("extra"))}
        \cup (IF batch = <<>> THEN {} ELSE {SubSeq(Faithful(batch), 1, Len(batch) - 1)})

\* a variant whose threshold is off by one
NeedsBatchingLate(n) == n > DEFAULT_TOP_RERANK + 1

\* if len(texts) > DEFAULT_TOP_RERANK
NeedsBatching(n) == n > DEFAULT_TOP_RERANK

\* batch = texts[i:i+DEFAULT_TOP_RERANK]
Batch(texts, i) == Slice(texts, i, i + DEFAULT_TOP_RERANK)

\* a variant whose stride is off by one
NextBatchStartSkip(i) == i + DEFAULT_TOP_RERANK + 1

\* the next value of i in range(0, len(texts), DEFAULT_TOP_RERANK)
NextBatchStart(i) == i + DEFAULT_TOP_RERANK

\* the call: wrap a single string (done in e_texts), choose the branch
EmbedCall ==
    /\ e_pc = "call"
    /\ IF NeedsBatching(Len(e_texts))
         THEN e_pc' = "batch" /\ embeddings' = <<>> /\ e_i' = 0
         ELSE e_pc' = "single" /\ UNCHANGED <<embeddings, e_i>>
    /\ UNCHANGED <<e_entry, e_texts, e_calls, e_faithful, e_result>>
    /\ UNCHANGED <<chunkerVars, quickVars, storeVars, queryVars, extractVars>>

\* one iteration of the batching loop: one call to client.embeddings.create
EmbedBatch ==
    /\ e_pc = "batch"
    /\ e_i < Len(e_texts)
    /\ LET batch == Batch(e_texts, e_i)
       IN  /\ e_calls' = Append(e_calls, batch)
           /\ \/ \E ans \in ProviderAnswers(batch) :
                    /\ embeddings' = embeddings \o ans
                    /\ e_faithful' = (e_faithful /\ ans = Faithful(batch))
                    /\ e_i' = NextBatchStart(e_i)
                    /\ e_pc' = "batch"
              \/ \* the call raises (transport, authentication)
                 /\ e_pc' = "ProviderError"
                 /\ UNCHANGED <<embeddings, e_faithful, e_i>>
    /\ UNCHANGED <<e_entry, e_texts, e_result>>
    /\ UNCHANGED <<chunkerVars, quickVars, storeVars, queryVars, extractVars>>

\* range() is exhausted
EmbedBatchDone ==
    /\ e_pc = "batch"
    /\ ~(e_i < Len(e_texts))
    /\ e_pc' = "return"
    /\ UNCHANGED <<e_entry, e_texts, e_i, embeddings, e_calls, e_faithful, e_result>>
    /\ UNCHANGED <<chunkerVars, quickVars, storeVars, queryVars, extractVars>>

\* the else branch: one call with all the texts
EmbedSingle ==
    /\ e_pc = "single"
    /\ e_calls' = Append(e_calls, e_texts)
    /\ \/ \E ans \in ProviderAnswers(e_texts) :
             /\ embeddings' = ans
             /\ e_faithful' = (e_faithful /\ ans = Faithful(e_texts))
             /\ e_pc' = "return"
       \/ /\ e_pc' = "ProviderError"
          /\ UNCHANGED <<embeddings, e_faithful>>
    /\ UNCHANGED <<e_entry, e_texts, e_i, e_result>>
    /\ UNCHANGED <<chunkerVars, quickVars, storeVars, queryVars, extractVars>>

\* return embeddings[0] if single_input else embeddings
EmbedReturn ==
    /\ e_pc = "return"
    /\ IF e_entry = "embed_text_str"
         THEN IF embeddings = <<>>
                THEN e_pc' = "IndexError" /\ UNCHANGED e_result
                ELSE e_pc' = "done" /\ e_result' = embeddings[1]
         ELSE e_pc' = "done" /\ e_result' = embeddings
    /\ UNCHANGED <<e_entry, e_texts, e_i, embeddings, e_calls, e_faithful>>
    /\ UNCHANGED <<chunkerVars, quickVars, storeVars, queryVars, extractVars>>

\* the texts: n of them, all different, or only two different ones
EmbedInit ==
    /\ \/ /\ e_entry \in {"embed_text", "embed_documents"}
          /\ \E n \in 0..MaxTexts : \E m \in {2, MaxTexts + 1} :
                e_texts = [k \in 1..n |-> k % m]
       \/ /\ e_entry = "embed_text_str"
          /\ e_texts \in {<<0>>, <<1>>}
    /\ e_pc = "call"
    /\ e_i = 0
    /\ embeddings = <<>>
    /\ e_calls = <<>>
    /\ e_faithful = TRUE
    /\ e_result = <<>>

\* no embedding call is running
EmbedIdle ==
    /\ e_entry = "none"
    /\ e_texts = <<>>
    /\ e_pc = "idle"
    /\ e_i = 0
    /\ embeddings = <<>>
    /\ e_calls = <<>>
    /\ e_faithful = TRUE
    /\ e_result = <<>>

-----------------------------------------------------------------------------
(* The persist directory and the Chroma calls made on it *)

\* largest number of entries of a store found at the persist path
MaxStore == 4
\* largest number of chunks handed to a builder
MaxChunks == 2
\* number of successive calls of build_or_load_vectorstore followed
MaxCalls == 3

Absent == [state |-> "absent", entries |-> <<>>]

\* the entries a store found at the path holds: written by an earlier build
OldStore(m) ==
    [i \in 1..m |-> [gen |-> 0, id |-> i, source |-> "old.md", kind |-> "Document", text |-> i]]

\* what can be at the persist path when a builder starts: nothing, a
\* store Chroma can open (possibly with no entry), or one it fails to open
Disks ==
    {Absent} \cup
    {[state |-> s, entries |-> OldStore(m)] : s \in {"ok", "corrupt"}, m \in 0..MaxStore}

\* the chunks of call c as entries: from_texts gives each a fresh id
NewEntries(c, n) ==
    [i \in 1..n |-> [gen |-> c, id |-> i, source |-> "a.md", kind |-> "Document", text |-> i]]

path_existsAlways(d) == TRUE

\* os.path.exists(persist_dir)
path_exists(d) == d.state # "absent"

rmtreeKeep(d) == d

\* shutil.rmtree(persist_dir)
rmtree(d) == Absent

\* Chroma(persist_directory=...) opens the collection at the path, creating
\* the directory and an empty collection when there is none
get_or_create_collection(d) ==
    IF d.state = "absent" THEN [state |-> "ok", entries |-> <<>>] ELSE d

add_textsReplace(d, new) == [d EXCEPT !.entries = new]

\* the insert of Chroma.from_texts: the new entries join those of the collection
add_texts(d, new) == [d EXCEPT !.entries = @ \o new]

LoadedUsableMany(count) == count > 1

\* vect._collection.count() > 0
LoadedUsable(count) == count > 0

Did(ev) == \E i \in 1..Len(b_log) : b_log[i] = ev

KeyMissingNever(key) == FALSE

\* not os.environ.get("QWEN_API_KEY")
KeyMissing(key) == ~key

-----------------------------------------------------------------------------
(* build_or_load_vectorstore(chunks, metadatas, persist_dir, embedding_model) *)
(*   --  quickstart/rag_basic.py, with the try/except around its call          *)

\* if not os.environ.get("QWEN_API_KEY"): raise ValueError
BKeyCheck ==
    /\ b_script = "build_or_load_vectorstore"
    /\ b_pc = "key_check"
    /\ b_pc' = IF KeyMissing(b_key) THEN "ValueError" ELSE "exists_check"
    /\ UNCHANGED <<disk, b_script, b_call, b_key, b_file, b_chunks, b_response, b_vect,
                   b_disk0, b_log, b_prev>>
    /\ UNCHANGED <<chunkerVars, quickVars, embedVars, queryVars, extractVars>>

\* db_exists = os.path.exists(persist_dir) and os.path.isdir(persist_dir)
BExistsCheck ==
    /\ b_script = "build_or_load_vectorstore"
    /\ b_pc = "exists_check"
    /\ b_pc' = IF path_exists(disk) THEN "load" ELSE "build"
    /\ UNCHANGED <<disk, b_script, b_call, b_key, b_file, b_chunks, b_response, b_vect,
                   b_disk0, b_log, b_prev>>
    /\ UNCHANGED <<chunkerVars, quickVars, embedVars, queryVars, extractVars>>

\* the try block: open the store; return it when it has entries, otherwise
\* (no entry, or the open raised) go on to delete the directory
BLoad ==
    /\ b_script = "build_or_load_vectorstore"
    /\ b_pc = "load"
    /\ b_log' = Append(b_log, "open")
    /\ IF disk.state = "corrupt"
       THEN /\ b_pc' = "discard"
            /\ UNCHANGED b_vect
       ELSE /\ b_vect' = disk.entries
            /\ b_pc' = IF LoadedUsable(Len(disk.entries)) THEN "returned" ELSE "discard"
    /\ UNCHANGED <<disk, b_script, b_call, b_key, b_file, b_chunks, b_response,
                   b_disk0, b_prev>>
    /\ UNCHANGED <<chunkerVars, quickVars, embedVars, queryVars, extractVars>>

\* shutil.rmtree(persist_dir), in the else branch and in the except branch
BDiscard ==
    /\ b_script = "build_or_load_vectorstore"
    /\ b_pc = "discard"
    /\ disk' = rmtree(disk)
    /\ b_log' = Append(b_log, "rmtree")
    /\ b_pc' = "build"
    /\ UNCHANGED <<b_script, b_call, b_key, b_file, b_chunks, b_response, b_vect,
                   b_disk0, b_prev>>
    /\ UNCHANGED <<chunkerVars, quickVars, embedVars, queryVars, extractVars>>

\* vect = Chroma.from_texts(...): opens or creates the collection, embeds the
\* texts, inserts them.  A path Chroma cannot open raises; a failing embedding
\* raises after the collection was created, leaving it without the new entries.
BFromTexts ==
    /\ b_script = "build_or_load_vectorstore"
    /\ b_pc = "build"
    /\ IF disk.state = "corrupt"
       THEN /\ b_pc' = "Exception"
            /\ UNCHANGED <<disk, b_vect, b_log>>
       ELSE \E embedded \in BOOLEAN :
            IF embedded
            THEN /\ disk' = add_texts(get_or_create_collection(disk), b_chunks)
                 /\ b_vect' = disk'.entries
                 /\ b_log' = Append(b_log, "from_texts")
                 /\ b_pc' = "persist"
            ELSE /\ disk' = get_or_create_collection(disk)
                 /\ b_log' = Append(b_log, "create")
                 /\ b_pc' = "Exception"
                 /\ UNCHANGED b_vect
    /\ UNCHANGED <<b_script, b_call, b_key, b_file, b_chunks, b_response, b_disk0, b_prev>>
    /\ UNCHANGED <<chunkerVars, quickVars, embedVars, queryVars, extractVars>>

\* try: vect.persist() except: warn; return vect.  The entries reached the
\* directory when they were inserted; a failing persist is only reported.
BPersist ==
    /\ b_script = "build_or_load_vectorstore"
    /\ b_pc = "persist"
    /\ \E ok \in BOOLEAN :
        b_log' = Append(b_log, IF ok THEN "persist" ELSE "persist_failed")
    /\ b_pc' = "returned"
    /\ UNCHANGED <<disk, b_script, b_call, b_key, b_file, b_chunks, b_response, b_vect,
                   b_disk0, b_prev>>
    /\ UNCHANGED <<chunkerVars, quickVars, embedVars, queryVars, extractVars>>

\* how a finished call ended
BOutcome ==
    IF b_pc = "returned"
    THEN [outcome |-> IF Did("from_texts") THEN "built" ELSE "loaded", count |-> Len(b_vect)]
    ELSE [outcome |-> b_pc, count |-> 0]

\* the script is run again on the same persist directory, with the chunks and
\* the environment of that run
BAgain ==
    /\ b_script = "build_or_load_vectorstore"
    /\ b_pc \in {"returned", "ValueError", "Exception"}
    /\ b_call < MaxCalls
    /\ b_call' = b_call + 1
    /\ b_prev' = Append(b_prev, BOutcome)
    /\ b_key' \in BOOLEAN
    /\ \E n \in 0..MaxChunks : b_chunks' = NewEntries(b_call + 1, n)
    /\ b_vect' = <<>>
    /\ b_disk0' = disk
    /\ b_log' = <<>>
    /\ b_pc' = "key_check"
    /\ UNCHANGED <<disk, b_script, b_file, b_response>>
    /\ UNCHANGED <<chunkerVars, quickVars, embedVars, queryVars, extractVars>>

BuilderInit ==
    /\ b_script = "build_or_load_vectorstore"
    /\ disk \in Disks
    /\ b_pc = "key_check"
    /\ b_call = 1
    /\ b_key \in BOOLEAN
    /\ b_file = TRUE
    /\ b_chunks \in {NewEntries(1, n) : n \in 0..MaxChunks}
    /\ b_response = <<>>
    /\ b_vect = <<>>
    /\ b_disk0 = disk
    /\ b_log = <<>>
    /\ b_prev = <<>>

-----------------------------------------------------------------------------
(* store_manager.py main *)

\* the lines typed at the prompt
Responses == {<<"y">>, <<"Y">>, <<" ", "y">>, <<"n">>, <<"y", "e", "s">>, <<>>}

\* str.lower()
Lower(s) == [i \in 1..Len(s) |-> IF s[i] = "Y" THEN "y" ELSE s[i]]

\* input(...).strip().lower() == 'y'
AnsweredYes(line) == Lower(Strip(line)) = <<"y">>

\* if not os.environ.get("QWEN_API_KEY"): exit(1)
SKeyCheck ==
    /\ b_script = "store_manager"
    /\ b_pc = "key_check"
    /\ b_pc' = IF KeyMissing(b_key) THEN "exit1" ELSE "file_check"
    /\ UNCHANGED <<disk, b_script, b_call, b_key, b_file, b_chunks, b_response, b_vect,
                   b_disk0, b_log, b_prev>>
    /\ UNCHANGED <<chunkerVars, quickVars, embedVars, queryVars, extractVars>>

\* if not chunks_file.exists(): exit(1)
SFileCheck ==
    /\ b_script = "store_manager"
    /\ b_pc = "file_check"
    /\ b_pc' = IF b_file THEN "prompt" ELSE "exit1"
    /\ UNCHANGED <<disk, b_script, b_call, b_key, b_file, b_chunks, b_response, b_vect,
                   b_disk0, b_log, b_prev>>
    /\ UNCHANGED <<chunkerVars, quickVars, embedVars, queryVars, extractVars>>

\* if os.path.exists(persist_dir): ask; 'y' deletes the directory, any other
\* answer keeps it.  Then the chunks file is loaded.
SExistsPrompt ==
    /\ b_script = "store_manager"
    /\ b_pc = "prompt"
    /\ IF path_exists(disk)
       THEN \E line \in Responses :
            /\ b_response' = line
            /\ IF AnsweredYes(line)
               THEN /\ disk' = rmtree(disk)
                    /\ b_log' = b_log \o <<"prompt", "rmtree">>
               ELSE /\ b_log' = Append(b_log, "prompt")
                    /\ UNCHANGED disk
       ELSE UNCHANGED <<disk, b_response, b_log>>
    /\ b_pc' = "build"
    /\ UNCHANGED <<b_script, b_call, b_key, b_file, b_chunks, b_vect, b_disk0, b_prev>>
    /\ UNCHANGED <<chunkerVars, quickVars, embedVars, queryVars, extractVars>>

\* vect = Chroma.from_texts(...), not guarded by any try
SFromTexts ==
    /\ b_script = "store_manager"
    /\ b_pc = "build"
    /\ IF disk.state = "corrupt"
       THEN /\ b_pc' = "Exception"
            /\ UNCHANGED <<disk, b_vect, b_log>>
       ELSE \E embedded \in BOOLEAN :
            IF embedded
            THEN /\ disk' = add_texts(get_or_create_collection(disk), b_chunks)
                 /\ b_vect' = disk'.entries
                 /\ b_log' = Append(b_log, "from_texts")
                 /\ b_pc' = "persist"
            ELSE /\ disk' = get_or_create_collection(disk)
                 /\ b_log' = Append(b_log, "create")
                 /\ b_pc' = "Exception"
                 /\ UNCHANGED b_vect
    /\ UNCHANGED <<b_script, b_call, b_key, b_file, b_chunks, b_response, b_disk0, b_prev>>
    /\ UNCHANGED <<chunkerVars, quickVars, embedVars, queryVars, extractVars>>

\* try: vect.persist(), report; except: warn.  Then the closing hints.
SPersist ==
    /\ b_script = "store_manager"
    /\ b_pc = "persist"
    /\ \E ok \in BOOLEAN :
        b_log' = Append(b_log, IF ok THEN "persist" ELSE "persist_failed")
    /\ b_pc' = "done"
    /\ UNCHANGED <<disk, b_script, b_call, b_key, b_file, b_chunks, b_response, b_vect,
                   b_disk0, b_prev>>
    /\ UNCHANGED <<chunkerVars, quickVars, embedVars, queryVars, extractVars>>

StoreManagerInit ==
    /\ b_script = "store_manager"
    /\ disk \in Disks
    /\ b_pc = "key_check"
    /\ b_call = 1
    /\ b_key \in BOOLEAN
    /\ b_file \in BOOLEAN
    /\ b_chunks \in {NewEntries(1, n) : n \in 0..MaxChunks}
    /\ b_response = <<>>
    /\ b_vect = <<>>
    /\ b_disk0 = disk
    /\ b_log = <<>>
    /\ b_prev = <<>>

BuilderIdle ==
    /\ b_script = "none"
    /\ b_pc = "idle"
    /\ b_call = 0
    /\ b_key = TRUE
    /\ b_file = TRUE
    /\ b_chunks = <<>>
    /\ b_response = <<>>
    /\ b_vect = <<>>
    /\ b_disk0 = Absent
    /\ b_log = <<>>
    /\ b_prev = <<>>

StoreIdle == disk = Absent /\ BuilderIdle

-----------------------------------------------------------------------------
(* Retrieved documents and the two prompt builders *)

\* most documents handed to a prompt builder called on its own
MaxDocs == 2

\* search_kwargs={"k": TOP_K}
TOP_K == 3

Queries == {"q1", "q2"}

\* A retrieved object d.  kind "Document": page_content and metadata with a
\* source; "NoSourceKey": page_content and metadata without a source key;
\* "Plain": neither page_content nor metadata, str(d) is its text.
DocKinds == {"Document", "NoSourceKey", "Plain"}

DocSet ==
    {[kind |-> "Document", text |-> t, source |-> s] : t \in 1..2, s \in {"a.md", "b.txt"}}
    \cup {[kind |-> k, text |-> t, source |-> ""] : k \in {"NoSourceKey", "Plain"}, t \in 1..2}

\* getattr(d, "page_content", str(d))
DocText(d) == d.text

\* d.metadata.get("source", "unknown") if hasattr(d, "metadata") else "unknown"
DocSource(d) == IF d.kind = "Document" THEN d.source ELSE "unknown"

\* A prompt is the sequence of its parts; a part is a fixed sentence, the
\* query line, or a fragment block.
Part(name) == [tok |-> name, pos |-> 0, source |-> "", text |-> 0, query |-> ""]

\* "用户问题：{query}"
QueryLine(q) == [Part("user_question") EXCEPT !.query = q]

BlockPosZero(i) == i - 1

\* enumerate(docs, start=1)
BlockPos(i) == i

\* "[片段 {i} | 来源: {src}]\n{text}\n" for every document, in order
Blocks(docs) ==
    [i \in 1..Len(docs) |->
        [Part("block") EXCEPT !.pos = BlockPos(i), !.source = DocSource(docs[i]),
                              !.text = DocText(docs[i])]]

\* build_prompt(query, docs)  --  quickstart/rag_basic.py
\*   empty docs: "用户问题：{query}\n\n注意：未检索到相关文档，请回答"我不知道"。"
\*   otherwise: "下面是检索到的知识片段…请 **只基于这些片段** 回答问题。"
\*              "如果片段中没有相关信息，请回答"我不知道"。" "已检索到的片段：" blocks
\*              "用户问题：{query}" "请给出简洁准确的回答，并在最后列出引用来源…"
build_prompt(query, docs) ==
    IF docs = <<>>
    THEN <<QueryLine(query), Part("nothing_retrieved"), Part("answer_unknown")>>
    ELSE <<Part("fragments_below"), Part("only_from_fragments"),
           Part("unknown_if_not_in_fragments"), Part("retrieved_header")>>
         \o Blocks(docs)
         \o <<QueryLine(query), Part("cite_sources")>>

\* make_prompt(query, docs)  --  rag_basic/llm_with_rag.py: no branch on docs
\*   "下面是检索到的知识片段（仅供参考）。请**仅基于这些片段**回答用户问题，"
\*   "如果片段中没有相关信息，请回答“我不知道”。" blocks "用户问题：{query}"
\*   "请给出简洁准确的回答，并在末尾列出引用来源。"
make_prompt(query, docs) ==
    <<Part("fragments_below"), Part("only_from_fragments"),
      Part("unknown_if_not_in_fragments")>>
    \o Blocks(docs)
    \o <<QueryLine(query), Part("cite_sources")>>

SourcesOfFromZero(docs) ==
    [i \in 1..Len(docs) |-> [source |-> DocSource(docs[i]), pos |-> i - 1]]

\* sources.append(f"{src} 片段 {i}") for i, d in enumerate(docs, start=1)
SourcesOf(docs) == [i \in 1..Len(docs) |-> [source |-> DocSource(docs[i]), pos |-> i]]

\* a prompt builder called on its own with a query and a list of documents
BuildPromptCall ==
    /\ r_script = "build_prompt"
    /\ r_pc = "call"
    /\ r_prompt' = build_prompt(r_query, r_docs)
    /\ r_log' = Append(r_log, "prompt")
    /\ r_pc' = "returned"
    /\ UNCHANGED <<r_script, r_key, r_query, r_docs, r_answer, r_result>>
    /\ UNCHANGED <<chunkerVars, quickVars, embedVars, storeVars, extractVars>>

MakePromptCall ==
    /\ r_script = "make_prompt"
    /\ r_pc = "call"
    /\ r_prompt' = make_prompt(r_query, r_docs)
    /\ r_log' = Append(r_log, "prompt")
    /\ r_pc' = "returned"
    /\ UNCHANGED <<r_script, r_key, r_query, r_docs, r_answer, r_result>>
    /\ UNCHANGED <<chunkerVars, quickVars, embedVars, storeVars, extractVars>>

NoResult == [kind |-> "none", keys |-> {}, answer |-> "", sources |-> <<>>]

PromptInit ==
    /\ r_script \in {"build_prompt", "make_prompt"}
    /\ r_pc = "call"
    /\ r_key = TRUE
    /\ r_query \in Queries
    /\ r_docs \in SeqsUpTo(DocSet, MaxDocs)
    /\ r_prompt = <<>>
    /\ r_answer = ""
    /\ r_result = NoResult
    /\ r_log = <<>>

-----------------------------------------------------------------------------
(* Retrieval: retriever.invoke(query) on a Chroma store, k = TOP_K *)

\* the i-th entry of a store as the Document the retriever gives back
StoreDoc(i) ==
    IF i % 3 = 0
    THEN [kind |-> "NoSourceKey", text |-> i, source |-> ""]
    ELSE [kind |-> "Document", text |-> i, source |-> IF i % 2 = 1 THEN "a.md" ELSE "b.txt"]

QueryStore(n) == [i \in 1..n |-> StoreDoc(i)]

\* what can be at the persist path when a query script starts
QueryDisks ==
    {Absent} \cup
    {[state |-> s, entries |-> QueryStore(n)] : s \in {"ok", "corrupt"}, n \in 0..MaxStore}

\* the rankings a similarity search can give: the min(k, count) nearest
\* entries, each once, in some order
Rankings(n, k) ==
    {r \in [1..Min(k, n) -> 1..n] : \A i, j \in 1..Min(k, n) : r[i] = r[j] => i = j}

\* the documents of a ranking
Retrieved(entries, r) == [i \in 1..Len(r) |-> entries[r[i]]]

RDid(ev) == \E i \in 1..Len(r_log) : r_log[i] = ev

NoDocsNever(docs) == FALSE

\* if not docs
NoDocs(docs) == docs = <<>>

-----------------------------------------------------------------------------
(* rag_query(query, retriever_instance, model)  --  quickstart/rag_basic.py *)

\* "查询失败: {e}"
QueryFailed == "query failed: e"

\* "未检索到相关文档，无法回答。"
NothingRetrieved == "no relevant document retrieved, cannot answer"

\* the result dictionaries of rag_query
Answer(ans, srcs) ==
    [kind |-> "dict", keys |-> {"answer", "sources"}, answer |-> ans, sources |-> srcs]

\* docs = retriever_instance.invoke(query), inside the try: embedding the
\* query or searching the store may raise, and the except turns that into a
\* result; no document gives the fixed "未检索到相关文档，无法回答。" result
RRetrieve ==
    /\ r_script = "rag_query"
    /\ r_pc = "retrieve"
    /\ \/ /\ r_log' = Append(r_log, "embed_query_raised")
          /\ r_result' = Answer(QueryFailed, <<>>)
          /\ r_pc' = "returned"
          /\ UNCHANGED r_docs
       \/ /\ disk.state = "corrupt"
          /\ r_log' = r_log \o <<"embed_query", "search_raised">>
          /\ r_result' = Answer(QueryFailed, <<>>)
          /\ r_pc' = "returned"
          /\ UNCHANGED r_docs
       \/ /\ disk.state = "ok"
          /\ \E r \in Rankings(Len(disk.entries), TOP_K) :
                r_docs' = Retrieved(disk.entries, r)
          /\ r_log' = r_log \o <<"embed_query", "search">>
          /\ IF NoDocs(r_docs')
             THEN /\ r_result' = Answer(NothingRetrieved, <<>>)
                  /\ r_pc' = "returned"
             ELSE /\ r_pc' = "prompt"
                  /\ UNCHANGED r_result
    /\ UNCHANGED <<r_script, r_key, r_query, r_prompt, r_answer>>
    /\ UNCHANGED <<chunkerVars, quickVars, embedVars, storeVars, extractVars>>

\* prompt = build_prompt(query, docs)
RPrompt ==
    /\ r_script = "rag_query"
    /\ r_pc = "prompt"
    /\ r_prompt' = build_prompt(r_query, r_docs)
    /\ r_log' = Append(r_log, "prompt")
    /\ r_pc' = "llm"
    /\ UNCHANGED <<r_script, r_key, r_query, r_docs, r_answer, r_result>>
    /\ UNCHANGED <<chunkerVars, quickVars, embedVars, storeVars, extractVars>>

\* answer = chat_qwen(prompt, model, stream=False), then the sources and the
\* return.  chat_qwen (only_llm.py) lets a failing request raise, which the
\* except of rag_query turns into a result; when the request succeeds it
\* returns the content of the completion, or "fail to response" when reading
\* the completion raises.
RChat ==
    /\ r_script = "rag_query"
    /\ r_pc = "llm"
    /\ \/ /\ r_log' = Append(r_log, "llm_raised")
          /\ r_result' = Answer(QueryFailed, <<>>)
          /\ UNCHANGED r_answer
       \/ /\ r_answer' \in {"content", "fail to response"}
          /\ r_log' = Append(r_log, "llm")
          /\ r_result' = Answer(r_answer', SourcesOf(r_docs))
    /\ r_pc' = "returned"
    /\ UNCHANGED <<r_script, r_key, r_query, r_docs, r_prompt>>
    /\ UNCHANGED <<chunkerVars, quickVars, embedVars, storeVars, extractVars>>

\* the retriever of rag_query stands on the store build_or_load_vectorstore gave
RagQueryInit ==
    /\ r_script = "rag_query"
    /\ disk \in QueryDisks \ {Absent}
    /\ r_pc = "retrieve"
    /\ r_key = TRUE
    /\ r_query \in Queries
    /\ r_docs = <<>>
    /\ r_prompt = <<>>
    /\ r_answer = ""
    /\ r_result = NoResult
    /\ r_log = <<>>

-----------------------------------------------------------------------------
(* llm_with_rag.py main *)

\* if not os.environ.get("QWEN_API_KEY"): exit(1)
LKeyCheck ==
    /\ r_script = "llm_with_rag"
    /\ r_pc = "key_check"
    /\ r_pc' = IF KeyMissing(r_key) THEN "exit1" ELSE "exists_check"
    /\ UNCHANGED <<r_script, r_key, r_query, r_docs, r_prompt, r_answer, r_result, r_log>>
    /\ UNCHANGED <<chunkerVars, quickVars, embedVars, storeVars, extractVars>>

\* if not os.path.exists(args.persist_dir): exit(1)
LExistsCheck ==
    /\ r_script = "llm_with_rag"
    /\ r_pc = "exists_check"
    /\ r_log' = Append(r_log, "exists")
    /\ r_pc' = IF path_exists(disk) THEN "open" ELSE "exit1"
    /\ UNCHANGED <<r_script, r_key, r_query, r_docs, r_prompt, r_answer, r_result>>
    /\ UNCHANGED <<chunkerVars, quickVars, embedVars, storeVars, extractVars>>

\* vect = Chroma(persist_directory=...), retriever, the count report (its own
\* try/except); a store Chroma cannot open raises, and nothing catches it
LOpen ==
    /\ r_script = "llm_with_rag"
    /\ r_pc = "open"
    /\ IF disk.state = "corrupt"
       THEN /\ r_log' = Append(r_log, "open_raised")
            /\ r_pc' = "Exception"
            /\ UNCHANGED disk
       ELSE /\ disk' = get_or_create_collection(disk)
            /\ r_log' = Append(r_log, "open")
            /\ r_pc' = "retrieve"
    /\ UNCHANGED <<r_script, r_key, r_query, r_docs, r_prompt, r_answer, r_result>>
    /\ UNCHANGED <<chunkerVars, quickVars, embedVars, builderVars, extractVars>>

\* docs = retriever.invoke(query); if not docs: exit(1)
LRetrieve ==
    /\ r_script = "llm_with_rag"
    /\ r_pc = "retrieve"
    /\ \/ /\ r_log' = Append(r_log, "embed_query_raised")
          /\ r_pc' = "Exception"
          /\ UNCHANGED r_docs
       \/ /\ \E r \in Rankings(Len(disk.entries), TOP_K) :
                r_docs' = Retrieved(disk.entries, r)
          /\ r_log' = r_log \o <<"embed_query", "search">>
          /\ r_pc' = IF NoDocs(r_docs') THEN "exit1" ELSE "prompt"
    /\ UNCHANGED <<r_script, r_key, r_query, r_prompt, r_answer, r_result>>
    /\ UNCHANGED <<chunkerVars, quickVars, embedVars, storeVars, extractVars>>

\* prompt = make_prompt(query, docs)
LPrompt ==
    /\ r_script = "llm_with_rag"
    /\ r_pc = "prompt"
    /\ r_prompt' = make_prompt(r_query, r_docs)
    /\ r_log' = Append(r_log, "prompt")
    /\ r_pc' = "llm"
    /\ UNCHANGED <<r_script, r_key, r_query, r_docs, r_answer, r_result>>
    /\ UNCHANGED <<chunkerVars, quickVars, embedVars, storeVars, extractVars>>

\* answer = qwen_chat(prompt, ...): raises on any failure; then the answer and
\* the sources are printed and saved to output/rag_answer.txt
LChat ==
    /\ r_script = "llm_with_rag"
    /\ r_pc = "llm"
    /\ \/ /\ r_log' = Append(r_log, "llm_raised")
          /\ r_pc' = "Exception"
          /\ UNCHANGED <<r_answer, r_result>>
       \/ /\ r_answer' = "content"
          /\ r_log' = Append(r_log, "llm")
          /\ r_result' = [kind |-> "file", keys |-> {"question", "answer", "sources"},
                          answer |-> r_answer', sources |-> SourcesOf(r_docs)]
          /\ r_pc' = "done"
    /\ UNCHANGED <<r_script, r_key, r_query, r_docs, r_prompt>>
    /\ UNCHANGED <<chunkerVars, quickVars, embedVars, storeVars, extractVars>>

LlmWithRagInit ==
    /\ r_script = "llm_with_rag"
    /\ disk \in QueryDisks
    /\ r_pc = "key_check"
    /\ r_key \in BOOLEAN
    /\ r_query \in Queries
    /\ r_docs = <<>>
    /\ r_prompt = <<>>
    /\ r_answer = ""
    /\ r_result = NoResult
    /\ r_log = <<>>

-----------------------------------------------------------------------------
(* test_rag(question)  --  rag_basic/main.py; everything inside one try whose *)
(* except returns None                                                        *)

NoneResult == [kind |-> "None", keys |-> {}, answer |-> "", sources |-> <<>>]

\* if not os.path.exists(PERSIST_DIR): return None
TExistsCheck ==
    /\ r_script = "test_rag"
    /\ r_pc = "exists_check"
    /\ r_log' = Append(r_log, "exists")
    /\ IF path_exists(disk)
       THEN /\ r_pc' = "open"
            /\ UNCHANGED r_result
       ELSE /\ r_pc' = "returned"
            /\ r_result' = NoneResult
    /\ UNCHANGED <<r_script, r_key, r_query, r_docs, r_prompt, r_answer>>
    /\ UNCHANGED <<chunkerVars, quickVars, embedVars, storeVars, extractVars>>

\* vect = Chroma(persist_directory=PERSIST_DIR, ...), retriever
TOpen ==
    /\ r_script = "test_rag"
    /\ r_pc = "open"
    /\ IF disk.state = "corrupt"
       THEN /\ r_log' = Append(r_log, "open_raised")
            /\ r_pc' = "returned"
            /\ r_result' = NoneResult
            /\ UNCHANGED disk
       ELSE /\ disk' = get_or_create_collection(disk)
            /\ r_log' = Append(r_log, "open")
            /\ r_pc' = "retrieve"
            /\ UNCHANGED r_result
    /\ UNCHANGED <<r_script, r_key, r_query, r_docs, r_prompt, r_answer>>
    /\ UNCHANGED <<chunkerVars, quickVars, embedVars, builderVars, extractVars>>

\* docs = retriever.invoke(question); if not docs: return None
TRetrieve ==
    /\ r_script = "test_rag"
    /\ r_pc = "retrieve"
    /\ \/ /\ r_log' = Append(r_log, "embed_query_raised")
          /\ r_pc' = "returned"
          /\ r_result' = NoneResult
          /\ UNCHANGED r_docs
       \/ /\ \E r \in Rankings(Len(disk.entries), TOP_K) :
                r_docs' = Retrieved(disk.entries, r)
          /\ r_log' = r_log \o <<"embed_query", "search">>
          /\ IF NoDocs(r_docs')
             THEN /\ r_pc' = "returned"
                  /\ r_result' = NoneResult
             ELSE /\ r_pc' = "prompt"
                  /\ UNCHANGED r_result
    /\ UNCHANGED <<r_script, r_key, r_query, r_prompt, r_answer>>
    /\ UNCHANGED <<chunkerVars, quickVars, embedVars, storeVars, extractVars>>

\* prompt = make_prompt(question, docs)
TPrompt ==
    /\ r_script = "test_rag"
    /\ r_pc = "prompt"
    /\ r_prompt' = make_prompt(r_query, r_docs)
    /\ r_log' = Append(r_log, "prompt")
    /\ r_pc' = "llm"
    /\ UNCHANGED <<r_script, r_key, r_query, r_docs, r_answer, r_result>>
    /\ UNCHANGED <<chunkerVars, quickVars, embedVars, storeVars, extractVars>>

\* answer = qwen_chat(prompt, ...), the sources, and the result dictionary
TChat ==
    /\ r_script = "test_rag"
    /\ r_pc = "llm"
    /\ \/ /\ r_log' = Append(r_log, "llm_raised")
          /\ r_result' = NoneResult
          /\ UNCHANGED r_answer
       \/ /\ r_answer' = "content"
          /\ r_log' = Append(r_log, "llm")
          /\ r_result' = [kind |-> "dict",
                          keys |-> {"answer", "duration", "retrieval_time",
                                    "generation_time", "sources"},
                          answer |-> r_answer', sources |-> SourcesOf(r_docs)]
    /\ r_pc' = "returned"
    /\ UNCHANGED <<r_script, r_key, r_query, r_docs, r_prompt>>
    /\ UNCHANGED <<chunkerVars, quickVars, embedVars, storeVars, extractVars>>

TestRagInit ==
    /\ r_script = "test_rag"
    /\ disk \in QueryDisks
    /\ r_pc = "exists_check"
    /\ r_key = TRUE
    /\ r_query \in Queries
    /\ r_docs = <<>>
    /\ r_prompt = <<>>
    /\ r_answer = ""
    /\ r_result = NoResult
    /\ r_log = <<>>

QueryIdle ==
    /\ r_script = "none"
    /\ r_pc = "idle"
    /\ r_key = TRUE
    /\ r_query = ""
    /\ r_docs = <<>>
    /\ r_prompt = <<>>
    /\ r_answer = ""
    /\ r_result = NoResult
    /\ r_log = <<>>

-----------------------------------------------------------------------------
(* extract_file and the format extractors  --  rag_basic/extractor.py *)

\* longest text held by a file given to an extractor
MaxContentLen == 2

\* the characters of those files: a letter, a blank, a Markdown heading mark
FileChars == {"A", " ", "#"}

PdfExt == <<".", "p", "d", "f">>
DocxExt == <<".", "d", "o", "c", "x">>
XlsExt == <<".", "x", "l", "s">>
XlsxExt == <<".", "x", "l", "s", "x">>
MdExt == <<".", "m", "d">>
CsvExt == <<".", "c", "s", "v">>

\* os.path.splitext(file_path)[-1] for the paths tried
Exts ==
    {PdfExt, DocxExt, XlsExt, XlsxExt, MdExt, CsvExt,
     <<".", "P", "D", "F">>, <<".", "D", "o", "c", "X">>, <<".", "X", "L", "S">>,
     <<".", "X", "l", "s", "x">>, <<".", "M", "d">>, <<".", "C", "S", "V">>,
     <<".", "t", "x", "t">>, <<".", "d", "o", "c">>, <<".", "P", "D">>, <<>>}

LowerChar(c) ==
    CASE c = "P" -> "p" [] c = "D" -> "d" [] c = "F" -> "f" [] c = "C" -> "c"
      [] c = "X" -> "x" [] c = "L" -> "l" [] c = "S" -> "s" [] c = "M" -> "m"
      [] c = "V" -> "v" [] OTHER -> c

ExtKeepCase(ext) == ext

\* .lower()
ExtLower(ext) == [i \in 1..Len(ext) |-> LowerChar(ext[i])]

\* the if/elif chain of extract_file: the extractor for an extension
Extractor(ext) ==
    CASE ext = PdfExt -> "extract_pdf"
      [] ext = DocxExt -> "extract_word"
      [] ext \in {XlsExt, XlsxExt} -> "extract_excel"
      [] ext = MdExt -> "extract_markdown"
      [] ext = CsvExt -> "extract_csv"
      [] OTHER -> "ValueError"

\* extract_file(file_path)
ExtractFile ==
    /\ x_pc = "extract_file"
    /\ x_pc' = Extractor(ExtLower(x_ext))
    /\ UNCHANGED <<x_entry, x_ext, x_exists, x_content, x_failed, x_result>>
    /\ UNCHANGED <<chunkerVars, quickVars, embedVars, storeVars, queryVars>>

\* f"[ERROR] 文件未找到: {fnf_err}"
NotFoundMsg == <<"[ERROR]", " ", "file not found">>

\* f"[ERROR] 从 ... '{path}' 提取文本时出错: {e}"
ErrorMsg(what) == <<"[ERROR]", " ", what>>

\* The body shared by the five extractors: text_content = ""; try: raise
\* FileNotFoundError when the path does not exist, else read the file with the
\* format's library; except FileNotFoundError / except Exception: the message
\* becomes text_content; return text_content.strip().  "read" is the text the
\* try block builds when nothing raises.
Extract(name, read) ==
    /\ x_pc = name
    /\ \E lib \in {"ok", "FileNotFoundError", "Exception"} :
        /\ ~x_exists => lib = "FileNotFoundError"
        /\ x_failed' = (lib # "ok")
        /\ x_result' = Strip(CASE lib = "ok" -> read
                               [] lib = "FileNotFoundError" -> NotFoundMsg
                               [] OTHER -> ErrorMsg(name))
    /\ x_pc' = "returned"
    /\ UNCHANGED <<x_entry, x_ext, x_exists, x_content>>
    /\ UNCHANGED <<chunkerVars, quickVars, embedVars, storeVars, queryVars>>

\* extract_pdf: text_content += page_text + "\n" for a page with text
ExtractPdf ==
    Extract("extract_pdf", IF x_content # <<>> THEN x_content \o <<" ">> ELSE <<>>)

\* extract_word: text_content += paragraph.text + "\n" for a non-blank paragraph
ExtractWord ==
    Extract("extract_word", IF Strip(x_content) # <<>> THEN x_content \o <<" ">> ELSE <<>>)

\* extract_excel: a header and df.to_string() per non-empty sheet, or the
\* "[INFO] Excel文件中没有数据内容" text when no sheet has data
ExtractExcel ==
    Extract("extract_excel",
            IF x_content = <<>>
            THEN <<"[INFO]", " ", "no data in the Excel file">>
            ELSE <<" ", "--- Sheet ---", " ">> \o x_content \o <<" ">>)

\* re.sub(r'^#+\s*', '', text, flags=re.MULTILINE) on a one-line text: the
\* heading marks at its start and the blanks after them go.  (The other
\* substitutions of extract_markdown match nothing in texts over FileChars.)
StripHeading(s) ==
    LET marks == {i \in 0..Len(s) : \A j \in 1..i : s[j] = "#"}
        m     == SetMax(marks)
        blank == {i \in m..Len(s) : \A j \in (m + 1)..i : s[j] \in Whitespace}
    IN  IF m = 0 THEN s ELSE Slice(s, SetMax(blank), Len(s))

\* extract_markdown: file.read(), then the substitutions
ExtractMarkdown == Extract("extract_markdown", StripHeading(x_content))

\* extract_csv: pd.read_csv with each encoding in turn, then with the detected
\* one; text_content = df.to_string(index=False)
ExtractCsv == Extract("extract_csv", x_content)

ExtractInit ==
    /\ x_entry \in {"extract_file", "extract_pdf", "extract_word", "extract_excel",
                    "extract_markdown", "extract_csv"}
    /\ x_ext \in Exts
    /\ x_exists \in BOOLEAN
    /\ x_content \in SeqsUpTo(FileChars, MaxContentLen)
    /\ x_pc = x_entry
    /\ x_failed = FALSE
    /\ x_result = <<>>

ExtractIdle ==
    /\ x_entry = "none"
    /\ x_ext = <<>>
    /\ x_exists = FALSE
    /\ x_content = <<>>
    /\ x_pc = "idle"
    /\ x_failed = FALSE
    /\ x_result = <<>>

-----------------------------------------------------------------------------
(* A run is one of the scripts: the chunker, the quickstart pipeline, a call *)
(* of the embedding client, a store builder, a prompt builder or a query.   *)

Init ==
    \/ ChunkerInit /\ QuickIdle /\ EmbedIdle /\ StoreIdle /\ QueryIdle /\ ExtractIdle
    \/ ChunkerIdle /\ QuickInit /\ EmbedIdle /\ StoreIdle /\ QueryIdle /\ ExtractIdle
    \/ ChunkerIdle /\ QuickIdle /\ EmbedInit /\ StoreIdle /\ QueryIdle /\ ExtractIdle
    \/ ChunkerIdle /\ QuickIdle /\ EmbedIdle /\ BuilderInit /\ QueryIdle /\ ExtractIdle
    \/ ChunkerIdle /\ QuickIdle /\ EmbedIdle /\ StoreManagerInit /\ QueryIdle /\ ExtractIdle
    \/ ChunkerIdle /\ QuickIdle /\ EmbedIdle /\ StoreIdle /\ PromptInit /\ ExtractIdle
    \/ ChunkerIdle /\ QuickIdle /\ EmbedIdle /\ BuilderIdle /\ RagQueryInit /\ ExtractIdle
    \/ ChunkerIdle /\ QuickIdle /\ EmbedIdle /\ BuilderIdle /\ LlmWithRagInit /\ ExtractIdle
    \/ ChunkerIdle /\ QuickIdle /\ EmbedIdle /\ BuilderIdle /\ TestRagInit /\ ExtractIdle
    \/ ChunkerIdle /\ QuickIdle /\ EmbedIdle /\ StoreIdle /\ QueryIdle /\ ExtractInit

Next ==
    \/ ChunkCall
    \/ ChunkStep
    \/ ChunkLoopExit
    \/ MainReport
    \/ MainSave
    \/ QReadFile
    \/ QReadDone
    \/ QDocStart
    \/ QChunkStep
    \/ QDocsDone
    \/ EmbedCall
    \/ EmbedBatch
    \/ EmbedBatchDone
    \/ EmbedSingle
    \/ EmbedReturn
    \/ BKeyCheck
    \/ BExistsCheck
    \/ BLoad
    \/ BDiscard
    \/ BFromTexts
    \/ BPersist
    \/ BAgain
    \/ SKeyCheck
    \/ SFileCheck
    \/ SExistsPrompt
    \/ SFromTexts
    \/ SPersist
    \/ BuildPromptCall
    \/ MakePromptCall
    \/ RRetrieve
    \/ RPrompt
    \/ RChat
    \/ LKeyCheck
    \/ LExistsCheck
    \/ LOpen
    \/ LRetrieve
    \/ LPrompt
    \/ LChat
    \/ TExistsCheck
    \/ TOpen
    \/ TRetrieve
    \/ TPrompt
    \/ TChat
    \/ ExtractFile
    \/ ExtractPdf
    \/ ExtractWord
    \/ ExtractExcel
    \/ ExtractMarkdown
    \/ ExtractCsv

Spec == Init /\ [][Next]_vars

\* store_manager.py rebuilding the store while llm_with_rag.py queries the same
\* persist directory: two processes, nothing orders their steps
RebuildDuringQueryInit ==
    /\ ChunkerIdle /\ QuickIdle /\ EmbedIdle /\ ExtractIdle
    /\ StoreManagerInit
    /\ disk.state = "ok"
    /\ b_key /\ b_file
    /\ r_script = "llm_with_rag"
    /\ r_pc = "key_check"
    /\ r_key = TRUE
    /\ r_query = "q1"
    /\ r_docs = <<>>
    /\ r_prompt = <<>>
    /\ r_answer = ""
    /\ r_result = NoResult
    /\ r_log = <<>>

RebuildDuringQueryNext ==
    \/ SKeyCheck
    \/ SFileCheck
    \/ SExistsPrompt
    \/ SFromTexts
    \/ SPersist
    \/ LKeyCheck
    \/ LExistsCheck
    \/ LOpen
    \/ LRetrieve
    \/ LPrompt
    \/ LChat

RebuildDuringQuerySpec == RebuildDuringQueryInit /\ [][RebuildDuringQueryNext]_vars

\* a run of the chunker script alone; a running script takes its next step
ChunkerNext ==
    \/ ChunkCall
    \/ ChunkStep
    \/ ChunkLoopExit
    \/ MainReport
    \/ MainSave

ChunkerRunInit ==
    ChunkerInit /\ QuickIdle /\ EmbedIdle /\ StoreIdle /\ QueryIdle /\ ExtractIdle

ChunkerSpec == ChunkerRunInit /\ [][ChunkerNext]_vars /\ WF_vars(ChunkerNext)


-----------------------------------------------------------------------------
(* Properties of simple_chunk_text *)

\* the parameters every chunking contract is stated for
ContractArgs == chunk_size > 0 /\ 0 <= overlap /\ overlap < chunk_size

\* simple_chunk_text has returned its list
Returned == pc \in {"returned", "reported", "saved", "ZeroDivisionError"}

IsTrimmed(c) == c # <<>> /\ c[1] \notin Whitespace /\ c[Len(c)] \notin Whitespace

\* the windows whose trimmed content was emitted, in order
EmittedWindows == SelectSeq(windows, LAMBDA w : Strip(Slice(text, w[1], w[2])) # <<>>)

\* the 0-based span <<first, last + 1>> of text that the fragment of window w holds
FragmentSpan(w) ==
    <<w[1] + StripSpan(Slice(text, w[1], w[2]))[1],
      w[1] + StripSpan(Slice(text, w[1], w[2]))[2]>>

\* every index of text lies in a window, and every character that is not whitespace
\* is held, at its position, by the fragment emitted for a window
Covered ==
    /\ Len(EmittedWindows) = Len(chunks)
    /\ \A k \in 0..(Len(text) - 1) :
          /\ \E i \in 1..Len(windows) : windows[i][1] <= k /\ k < windows[i][2]
          /\ text[k + 1] \notin Whitespace =>
                \E i \in 1..Len(chunks) :
                   LET sp == FragmentSpan(EmittedWindows[i])
                   IN  /\ sp[1] <= k /\ k < sp[2]
                       /\ Len(chunks[i]) = sp[2] - sp[1]
                       /\ chunks[i][k - sp[1] + 1] = text[k + 1]

\* while simple_chunk_text runs on contract parameters it has taken at most
\* len(text) iterations; start has advanced by at least one per iteration taken
\* and is still inside the text whenever the loop goes on
IterationBound ==
    (pc # "idle" /\ ContractArgs) =>
        /\ iters <= Len(text)
        /\ (pc = "loop" /\ iters > 0) => (iters <= start /\ start < Len(text))

\* C1: for size > 0 and 0 <= overlap < size the loop of simple_chunk_text reaches
\* its return after at most len(text) iterations, overlap = size - 1 included:
\* the iteration bound always holds and every run leaves the loop for good.
C1_Terminates == [](IterationBound) /\ <>[](pc \notin {"call", "loop"})

\* C1 happens: a call with overlap = size - 1 that took several iterations returned
C1_Witness ==
    /\ pc = "returned"
    /\ chunk_size >= 2
    /\ overlap = chunk_size - 1
    /\ iters >= 3

\* C2: for size > 0 and 0 <= overlap < size every emitted fragment is non-empty,
\* has no leading or trailing whitespace and is at most size characters long.
C2_FragmentsTrimmedAndBounded ==
    (pc # "idle" /\ ContractArgs) =>
        \A i \in 1..Len(chunks) : IsTrimmed(chunks[i]) /\ Len(chunks[i]) <= chunk_size

\* C2 happens: a window that began or ended with whitespace was emitted, trimmed
C2_Witness ==
    /\ Returned
    /\ ContractArgs
    /\ \E i \in 1..Len(windows) :
          LET w == Slice(text, windows[i][1], windows[i][2])
          IN  Strip(w) # <<>> /\ Strip(w) # w /\ Len(w) = chunk_size
    /\ Len(chunks) >= 2

\* C3: for size > 0 and 0 <= overlap < size, once simple_chunk_text has returned,
\* every index of text lies inside a window the loop took and every character
\* that is not whitespace appears in an emitted fragment at its position.
C3_Coverage == (Returned /\ ContractArgs) => Covered

\* C3 happens: several overlapping windows, one of them discarded as blank
C3_Witness ==
    /\ Returned
    /\ ContractArgs
    /\ overlap > 0
    /\ Len(windows) >= 3
    /\ Len(chunks) >= 1
    /\ Len(chunks) < Len(windows)

\* C4: whenever overlap >= size or size <= 0 the call fails with the parameter
\* error, before a window of the text is taken and with no fragment emitted;
\* whenever size > 0 and overlap < size it does not fail.
C4_RejectsBadParameters ==
    /\ (pc \notin {"idle", "call"} /\ (overlap >= chunk_size \/ chunk_size <= 0)) =>
          (pc = "ValueError" /\ chunks = <<>> /\ windows = <<>> /\ iters = 0)
    /\ (chunk_size > 0 /\ overlap < chunk_size) => pc # "ValueError"

\* C4 happens: a call with overlap = size on a non-empty text was rejected
C4_Witness ==
    /\ pc = "ValueError"
    /\ chunk_size > 0
    /\ overlap = chunk_size
    /\ Len(text) > 0

\* C5: for every valid (size, overlap), chunking the empty string returns an
\* empty list and chunker.py main, which consumes the result, completes without
\* an error.
C5_EmptyTextIsNoError ==
    (text = <<>> /\ pc # "idle" /\ ~ArgsRejected(chunk_size, overlap)) =>
        /\ Returned => chunks = <<>>
        /\ pc \notin {"ValueError", "ZeroDivisionError"}

\* C6 as claimed: every non-empty text shorter than size yields exactly one
\* fragment.
C6_ShortTextOneFragment_Original ==
    (Returned /\ ~ArgsRejected(chunk_size, overlap)
              /\ Len(text) > 0 /\ Len(text) < chunk_size) =>
        Len(chunks) = 1

\* C6, amended: a non-empty text shorter than size yields exactly one fragment,
\* the trimmed text, when it holds a character that is not whitespace, and no
\* fragment when it is all whitespace.
C6_ShortTextOneFragment ==
    (Returned /\ ~ArgsRejected(chunk_size, overlap)
              /\ Len(text) > 0 /\ Len(text) < chunk_size) =>
        chunks = IF Strip(text) = <<>> THEN <<>> ELSE <<Strip(text)>>

\* C6 happens: a short text with whitespace at an end gave its one trimmed fragment
C6_Witness ==
    /\ Returned
    /\ overlap > 0
    /\ Len(text) >= 2
    /\ Len(text) < chunk_size
    /\ Strip(text) # text
    /\ chunks = <<Strip(text)>>

\* the call of the worked example has returned
ScenarioReturned ==
    Returned /\ text = ScenarioText /\ chunk_size = 5 /\ overlap = 1

\* C7 as claimed: "AAAA BBBB CCCC" with size 5 and overlap 1 yields a list that
\* starts with "AAAA" followed by " BBBB", every fragment trimmed and at most 5
\* characters long, the fragments covering the string.
C7_Scenario_Original ==
    ScenarioReturned =>
        /\ Len(chunks) >= 2
        /\ chunks[1] = <<"A", "A", "A", "A">>
        /\ chunks[2] = <<" ", "B", "B", "B", "B">>
        /\ \A i \in 1..Len(chunks) : IsTrimmed(chunks[i]) /\ Len(chunks[i]) <= 5
        /\ Covered

\* C7, amended: the list is "AAAA", "BBBB", "B CCC", "CC": it starts with "AAAA"
\* followed by "BBBB" (the window " BBBB", trimmed), every fragment is trimmed
\* and at most 5 characters long, and the fragments cover the string.
C7_Scenario ==
    ScenarioReturned =>
        /\ chunks = << <<"A", "A", "A", "A">>, <<"B", "B", "B", "B">>,
                       <<"B", " ", "C", "C", "C">>, <<"C", "C">> >>
        /\ windows[2] = <<4, 9>>
        /\ Slice(text, 4, 9) = <<" ", "B", "B", "B", "B">>
        /\ \A i \in 1..Len(chunks) : IsTrimmed(chunks[i]) /\ Len(chunks[i]) <= 5
        /\ Covered

\* C7 happens: the call of the worked example returned its four fragments
C7_Witness == ScenarioReturned /\ Len(chunks) = 4 /\ pc = "saved"


-----------------------------------------------------------------------------
(* Properties of the ingestion bookkeeping and of the embedding client *)

\* the number of entries before position i that carry the source of entry i
EarlierOfSameSource(i) ==
    Cardinality({j \in 1..(i - 1) : q_metadatas[j].source = q_metadatas[i].source})

\* entry i of q_chunks is a trimmed window of the document that entry i of
\* q_metadatas names
DescribedBy(i) ==
    \E d \in 1..Len(raw_docs) :
       /\ raw_docs[d].source = q_metadatas[i].source
       /\ \E a \in 0..Len(raw_docs[d].text) : \E b \in a..Len(raw_docs[d].text) :
             q_chunks[i] = Strip(Slice(raw_docs[d].text, a, b))

\* C8: fragment indices are assigned per source document, from 0 and by steps of
\* exactly 1 in emission order; the lists of fragment texts and of metadata always
\* have the same length, entry i of one describing entry i of the other; the
\* chunker script numbers its fragments 0..n-1 in the same way.
C8_IndicesPerSource ==
    /\ Len(q_chunks) = Len(q_metadatas)
    /\ \A i \in 1..Len(q_metadatas) :
          /\ q_metadatas[i].chunk_index = EarlierOfSameSource(i)
          /\ DescribedBy(i)
    /\ (q_pc = "while") => q_idx = Cardinality({j \in 1..Len(q_metadatas) :
                                       q_metadatas[j].source = raw_docs[q_doc].source})
    /\ (pc = "saved") =>
          /\ Len(out_list) = Len(chunks)
          /\ \A i \in 1..Len(out_list) :
                out_list[i].id = i - 1 /\ out_list[i].text = chunks[i]

\* C8 happens: two documents were chunked, each into several fragments
C8_Witness ==
    /\ q_pc = "chunked"
    /\ Len(raw_docs) = 2
    /\ \E i, j \in 1..Len(q_metadatas) :
          /\ i < j
          /\ q_metadatas[i].source # q_metadatas[j].source
          /\ q_metadatas[i].chunk_index = 1
          /\ q_metadatas[j].chunk_index = 1

\* C9: when every answer of the provider has one vector per text in request
\* order, embedding a list of n texts returns exactly n vectors, the k-th being
\* the provider's vector of the k-th text (and embedding one string returns the
\* vector of that string): no vector is reordered, dropped or duplicated.
C9_EmbedKeepsLengthAndOrder ==
    (e_pc = "done" /\ e_faithful) =>
        IF e_entry = "embed_text_str"
          THEN e_result = Vec(e_texts[1])
          ELSE /\ Len(e_result) = Len(e_texts)
               /\ \A k \in 1..Len(e_texts) : e_result[k] = Vec(e_texts[k])

\* C9 happens: more than two full batches of distinct texts were embedded
C9_Witness ==
    /\ e_pc = "done"
    /\ e_faithful
    /\ Len(e_texts) > 2 * DEFAULT_TOP_RERANK
    /\ Len(e_calls) = 3
    /\ \A j, k \in 1..Len(e_texts) : j # k => e_texts[j] # e_texts[k]
    /\ Len(e_result) = Len(e_texts)

\* the number of provider calls n texts need: ceil(n / DEFAULT_TOP_RERANK)
CallsNeeded(n) == (n + DEFAULT_TOP_RERANK - 1) \div DEFAULT_TOP_RERANK

\* C10: for n >= 1 texts every call to the provider carries at least 1 and at most
\* DEFAULT_TOP_RERANK texts, the j-th call carries the j-th consecutive slice of
\* the input, and a call that runs to its end has issued exactly ceil(n / limit)
\* calls.
C10_BatchSizeBound ==
    (Len(e_texts) >= 1) =>
        /\ \A j \in 1..Len(e_calls) :
              /\ Len(e_calls[j]) >= 1
              /\ Len(e_calls[j]) <= DEFAULT_TOP_RERANK
              /\ e_calls[j] = Slice(e_texts, (j - 1) * DEFAULT_TOP_RERANK,
                                    j * DEFAULT_TOP_RERANK)
        /\ Len(e_calls) <= CallsNeeded(Len(e_texts))
        /\ (e_pc \in {"return", "done", "IndexError"}) =>
              Len(e_calls) = CallsNeeded(Len(e_texts))

\* C10 happens: one text more than the limit was sent as a full batch and a batch
\* of one
C10_Witness ==
    /\ e_pc = "done"
    /\ Len(e_texts) = DEFAULT_TOP_RERANK + 1
    /\ Len(e_calls) = 2
    /\ Len(e_calls[1]) = DEFAULT_TOP_RERANK
    /\ Len(e_calls[2]) = 1

-----------------------------------------------------------------------------
(* Properties of the embedding client under a provider that miscounts *)

\* C11: when the provider answers a batch with a number of vectors different
\* from the number of texts sent, the call fails with an error; it never returns
\* a vector sequence whose length differs from the number of input texts (nor,
\* for a single string, a vector taken from a miscounted answer).
C11_CountMismatchIsError ==
    (e_pc = "done") =>
        /\ e_faithful
        /\ e_entry # "embed_text_str" => Len(e_result) = Len(e_texts)

-----------------------------------------------------------------------------
(* Properties of the store builders *)

\* the call found a directory whose store had no entry or could not be opened
DiscardCase ==
    /\ b_script = "build_or_load_vectorstore"
    /\ path_exists(b_disk0)
    /\ b_disk0.state = "corrupt" \/ b_disk0.entries = <<>>

NoneOf(old, es) == \A i \in 1..Len(es) : \A j \in 1..Len(old) : es[i] # old[j]

\* C12: when build_or_load_vectorstore finds a persist directory whose store
\* has no entry, or whose loading raises, the directory is deleted before the
\* fresh build starts; the store it returns holds exactly the given chunks
\* (count = len(chunks)) and no entry of the previous persisted state.
C12_DiscardBeforeRebuild ==
    DiscardCase =>
        /\ b_pc = "build" => disk = Absent /\ Did("rmtree")
        /\ b_pc \in {"persist", "returned"} =>
            /\ Did("rmtree") /\ Did("from_texts")
            /\ b_vect = b_chunks
            /\ disk.entries = b_chunks
            /\ Len(b_vect) = Len(b_chunks)
            /\ NoneOf(b_disk0.entries, b_vect)

\* an unreadable store with entries was found, and a store of new chunks returned
C12_Witness ==
    /\ DiscardCase
    /\ b_disk0.state = "corrupt"
    /\ Len(b_disk0.entries) >= 1
    /\ Len(b_chunks) >= 1
    /\ b_pc = "returned"

StoreManagerBuilt == b_script = "store_manager" /\ b_pc = "done"

\* C13 as stated: after store_manager main completes its build, the persisted
\* store holds exactly the entries of the current chunks file, whatever store
\* existed before and whatever was answered at the prompt.
C13_ReplacesWholesale_Original ==
    StoreManagerBuilt => disk.entries = b_chunks

\* what store_manager leaves of the store it found
KeptEntries ==
    IF path_exists(b_disk0) /\ ~AnsweredYes(b_response) THEN b_disk0.entries ELSE <<>>

\* C13: after store_manager main completes its build, the persisted store holds
\* the entries of the current chunks file; it holds exactly those when no store
\* existed at the path or the prompt was answered 'y'; after any other answer
\* the entries of the old store are kept and the new ones added behind them
\* (count = previous count + number of chunks).
C13_ReplacesUnlessKept ==
    StoreManagerBuilt =>
        /\ disk.state = "ok"
        /\ disk.entries = KeptEntries \o b_chunks
        /\ Len(disk.entries) = Len(KeptEntries) + Len(b_chunks)
        /\ (~path_exists(b_disk0) \/ AnsweredYes(b_response)) => disk.entries = b_chunks

\* an old store with entries was kept and new chunks added to it
C13_Witness ==
    /\ StoreManagerBuilt
    /\ Len(b_disk0.entries) >= 1
    /\ ~AnsweredYes(b_response)
    /\ Len(b_chunks) >= 1

\* C14: once build_or_load_vectorstore has built and persisted a store of
\* n >= 1 entries, every later call on the same directory leaves the directory
\* in place with its n entries, opens it without deleting, embedding or
\* inserting anything, and what it returns is a store of count n; this stays
\* so however often the call is repeated.  (A later call made without the API
\* key raises before it touches the store.)
C14_ReloadIsIdempotent ==
    \A k \in 1..Len(b_prev) :
        (b_prev[k].outcome = "built" /\ b_prev[k].count >= 1) =>
            /\ disk.state = "ok"
            /\ Len(disk.entries) = b_prev[k].count
            /\ ~Did("rmtree") /\ ~Did("from_texts") /\ ~Did("create")
            /\ b_pc \in {"key_check", "exists_check", "load", "returned", "ValueError"}
            /\ b_pc = "ValueError" => ~b_key
            /\ b_pc = "returned" => Len(b_vect) = b_prev[k].count
            /\ \A j \in (k + 1)..Len(b_prev) :
                \/ b_prev[j].outcome = "ValueError"
                \/ b_prev[j] = [outcome |-> "loaded", count |-> b_prev[k].count]

\* a store was built, then loaded by the next call, and loaded again
C14_Witness ==
    /\ Len(b_prev) >= 2
    /\ b_prev[1].outcome = "built"
    /\ b_prev[1].count >= 1
    /\ b_prev[2].outcome = "loaded"
    /\ b_pc = "returned"

-----------------------------------------------------------------------------
(* Properties of the query scripts and of the prompt builders *)

QueryFromStore == r_script \in {"llm_with_rag", "test_rag"}

\* C15: a query run (llm_with_rag main, test_rag) whose persist path does not
\* exist ends in an error outcome (exit status 1, or None) before a store is
\* opened, before the query is embedded and before the language model is
\* called; no store is created at the path and no prompt is assembled.
C15_MissingStoreFails ==
    (QueryFromStore /\ disk = Absent) =>
        /\ r_pc \in {"key_check", "exists_check", "exit1", "returned"}
        /\ r_pc = "returned" => r_result = NoneResult
        /\ \A i \in 1..Len(r_log) : r_log[i] = "exists"
        /\ r_docs = <<>> /\ r_prompt = <<>> /\ r_answer = ""

\* the existence check was made on a missing path and the run ended there
C15_Witness ==
    /\ QueryFromStore
    /\ disk = Absent
    /\ RDid("exists")
    /\ r_pc \in {"exit1", "returned"}

QueryEnded == r_pc \in {"returned", "done", "exit1", "Exception"}

\* C16: when retrieval gives no fragment, the query pipeline ends normally (no
\* error exit, no failure result), having assembled the prompt for an empty
\* result and passed it to the language model.
C16_EmptyRetrievalEndsNormally ==
    (r_script \in {"rag_query", "llm_with_rag", "test_rag"}
        /\ RDid("search") /\ r_docs = <<>> /\ QueryEnded) =>
            /\ r_pc \in {"returned", "done"}
            /\ r_result.kind # "None"
            /\ RDid("prompt")
            /\ RDid("llm")

HasPart(p, part) == \E i \in 1..Len(p) : p[i] = part

\* C17: for every query, each prompt builder (build_prompt, make_prompt) called
\* with no document returns a prompt that has no fragment block, holds the
\* query verbatim, states that nothing relevant was retrieved, and tells the
\* model to answer "我不知道".
C17_EmptyResultPrompt ==
    (r_script \in {"build_prompt", "make_prompt"} /\ r_pc = "returned" /\ r_docs = <<>>) =>
        /\ \A i \in 1..Len(r_prompt) : r_prompt[i].tok # "block"
        /\ HasPart(r_prompt, QueryLine(r_query))
        /\ HasPart(r_prompt, Part("nothing_retrieved"))
        /\ \/ HasPart(r_prompt, Part("answer_unknown"))
           \/ HasPart(r_prompt, Part("unknown_if_not_in_fragments"))

PartsAt(p, name) == {i \in 1..Len(p) : p[i].tok = name}

\* C18: a prompt assembled from n >= 1 documents (by build_prompt or by
\* make_prompt) has exactly n fragment blocks, the i-th of them labelled i and
\* with the source of the i-th document ("unknown" when it has no source
\* metadata) and holding its text; the query line comes once, after every
\* block, and the instruction to cite sources after it; the instructions to
\* answer only from the fragments and to say "我不知道" otherwise are there.
C18_FragmentBlocks ==
    (RDid("prompt") /\ Len(r_docs) >= 1) =>
        LET p == r_prompt
            n == Len(r_docs)
            first == SetMin(PartsAt(p, "block"))
        IN  /\ Cardinality(PartsAt(p, "block")) = n
            /\ \A i \in 1..n :
                /\ p[first + i - 1].tok = "block"
                /\ p[first + i - 1].pos = i
                /\ p[first + i - 1].text = r_docs[i].text
                /\ p[first + i - 1].source =
                       IF r_docs[i].kind = "Document" THEN r_docs[i].source ELSE "unknown"
            /\ \E q \in 1..Len(p) :
                /\ p[q] = QueryLine(r_query)
                /\ PartsAt(p, "user_question") = {q}
                /\ \A j \in PartsAt(p, "block") : j < q
                /\ \E c \in PartsAt(p, "cite_sources") : q < c
            /\ PartsAt(p, "only_from_fragments") # {}
            /\ PartsAt(p, "unknown_if_not_in_fragments") # {}

\* a builder was called on two documents, the first without source metadata
C18_Witness ==
    /\ r_script \in {"build_prompt", "make_prompt"}
    /\ r_pc = "returned"
    /\ Len(r_docs) = 2
    /\ r_docs[1].kind # "Document"
    /\ r_docs[2].kind = "Document"

\* C19: rag_query ends on every path (fragments found, none found, retrieval
\* failed, language-model call failed) by returning a mapping with exactly the
\* keys answer and sources; sources is empty unless chat_qwen returned, and
\* then it has one entry per retrieved document, in ranking order, numbered
\* 1..n.  (chat_qwen returning covers its own fallback text "fail to response".)
C19_AnswerAndSources ==
    r_script = "rag_query" =>
        /\ r_pc \in {"retrieve", "prompt", "llm", "returned"}
        /\ r_pc = "returned" =>
            /\ r_result.kind = "dict"
            /\ r_result.keys = {"answer", "sources"}
            /\ ~RDid("llm") => r_result.sources = <<>>
            /\ RDid("llm") =>
                /\ Len(r_result.sources) = Len(r_docs)
                /\ \A i \in 1..Len(r_docs) :
                    /\ r_result.sources[i].pos = i
                    /\ r_result.sources[i].source =
                           IF r_docs[i].kind = "Document" THEN r_docs[i].source ELSE "unknown"

\* TOP_K documents were retrieved and the language model answered
C19_Witness ==
    /\ r_script = "rag_query"
    /\ r_pc = "returned"
    /\ RDid("llm")
    /\ Len(r_docs) = TOP_K
    /\ r_answer = "content"

\* C20: when searching the store raises during rag_query, the error reaches
\* the caller: no result is returned, in particular none of the shape of the
\* nothing-retrieved result.
C20_SearchFailurePropagates ==
    (r_script = "rag_query" /\ RDid("search_raised")) =>
        /\ r_pc # "returned"
        /\ r_result = NoResult

-----------------------------------------------------------------------------
(* Properties of a rebuild running beside a query *)

Range(s) == {s[i] : i \in 1..Len(s)}

\* the documents are a full search result of the store with these entries
SearchResultOf(docs, entries) ==
    /\ Len(docs) = Min(TOP_K, Len(entries))
    /\ Range(docs) \subseteq Range(entries)

\* C21: when store_manager's rebuild (delete, bulk insert, persist) and a query
\* of llm_with_rag run on the same persist directory with their steps
\* interleaved, whatever the query searched was the complete old store or the
\* complete new one, never a deleted, empty or partly filled store.
C21_NoQueryMidRebuild ==
    (b_script = "store_manager" /\ r_script = "llm_with_rag" /\ RDid("search")) =>
        \/ SearchResultOf(r_docs, b_disk0.entries)
        \/ SearchResultOf(r_docs, KeptEntries \o b_chunks)

-----------------------------------------------------------------------------
(* Further properties of the two chunking loops *)

\* C22: in simple_chunk_text, for size > 0 and 0 <= overlap < size, no window
\* is taken at a negative start, every window starts at or after the one
\* before it, and the value start holds after the last iteration made (the
\* final one included) is not below the start of that iteration's window.
C22_StartNeverDecreases ==
    (pc # "idle" /\ ContractArgs) =>
        /\ \A i \in 1..Len(windows) : windows[i][1] >= 0
        /\ \A i \in 1..(Len(windows) - 1) : windows[i + 1][1] >= windows[i][1]
        /\ windows # <<>> => start >= windows[Len(windows)][1]
        /\ start >= 0

\* the clamp acted: the only window ended before the overlap, start stayed 0
C22_Witness ==
    /\ Returned
    /\ ContractArgs
    /\ Len(windows) = 1
    /\ windows[1][2] - overlap < 0
    /\ start = 0

\* the fragments the quickstart loop emitted for the document of this source
ChunksOfSource(src) ==
    LET idx == {i \in 1..Len(q_metadatas) : q_metadatas[i].source = src}
    IN  IF idx = {} THEN <<>>
        ELSE [k \in 1..Cardinality(idx) |-> q_chunks[SetMin(idx) + k - 1]]

\* C23: for size > 0 and 0 <= overlap < size the chunking loop of the
\* quickstart pipeline emits, for every document, exactly the fragment sequence
\* simple_chunk_text returns for that text: it goes on after an all-whitespace
\* window and takes no window after one that reached the end of the text.
C23_SameFragmentsAsSimpleChunkText ==
    (q_pc = "chunked" /\ 0 <= CHUNK_OVERLAP /\ CHUNK_OVERLAP < CHUNK_SIZE) =>
        \A d \in 1..Len(raw_docs) :
            ChunksOfSource(raw_docs[d].source)
                = simple_chunk_text(raw_docs[d].text, CHUNK_SIZE, CHUNK_OVERLAP)

\* C24: the chunking loop of the quickstart pipeline makes progress for every
\* CHUNK_SIZE > 0 and every integer CHUNK_OVERLAP, overlap >= size included:
\* every iteration that does not leave the loop moves start strictly forward,
\* so after k iterations start >= k, the loop over a document ends within
\* len(text) iterations, and no emitted fragment is longer than CHUNK_SIZE.
C24_QuickstartLoopProgress ==
    (q_pc \in {"while", "chunk", "chunked"}) =>
        /\ q_pc = "while" =>
            /\ q_iters <= q_start
            /\ q_start < Len(raw_docs[q_doc].text)
            /\ q_iters < Len(raw_docs[q_doc].text)
        /\ (q_pc \in {"chunk", "chunked"} /\ q_doc > 1) =>
            q_iters <= Len(raw_docs[q_doc - 1].text)
        /\ \A i \in 1..Len(q_chunks) : Len(q_chunks[i]) <= CHUNK_SIZE

\* a document was chunked in several iterations with overlap >= size
C24_Witness ==
    /\ q_pc = "chunk"
    /\ q_doc > 1
    /\ CHUNK_OVERLAP >= CHUNK_SIZE
    /\ q_iters >= 2
    /\ Len(q_chunks) >= 2

-----------------------------------------------------------------------------
(* Order of the checks and of the calls *)

\* C26: a run of store_manager main without QWEN_API_KEY or without a chunks
\* file exits before the existing-store prompt and the deletion, leaving the
\* persist directory as it was; build_or_load_vectorstore without
\* QWEN_API_KEY raises its ValueError before it checks, opens or deletes the
\* persist directory.
C26_ChecksPrecedeMutation ==
    /\ (b_script = "store_manager" /\ (~b_key \/ ~b_file)) =>
        /\ b_pc \in {"key_check", "file_check", "exit1"}
        /\ b_log = <<>>
        /\ b_response = <<>>
        /\ disk = b_disk0
    /\ (b_script = "build_or_load_vectorstore" /\ ~b_key) =>
        /\ b_pc \in {"key_check", "ValueError"}
        /\ b_log = <<>>
        /\ disk = b_disk0

\* store_manager ended at the chunks-file check with a store in place
C26_Witness ==
    /\ b_script = "store_manager"
    /\ b_key /\ ~b_file
    /\ b_pc = "exit1"
    /\ Len(disk.entries) >= 1

\* the steps of the run at which the language model was called
LlmCalls == {i \in 1..Len(r_log) : r_log[i] \in {"llm", "llm_raised"}}

LogIndex(ev) == {i \in 1..Len(r_log) : r_log[i] = ev}

\* C27: in every run of rag_query, of llm_with_rag main and of test_rag the
\* language model is called at most once, and only after a search that gave at
\* least one fragment and after the prompt was assembled from exactly those
\* fragments; when retrieval gives no fragment or raises, it is not called.
C27_LlmOnlyOnRetrievedContext ==
    (r_script \in {"rag_query", "llm_with_rag", "test_rag"}) =>
        /\ Cardinality(LlmCalls) <= 1
        /\ \A c \in LlmCalls :
            /\ r_docs # <<>>
            /\ \E s \in LogIndex("search") : \E p \in LogIndex("prompt") : s < p /\ p < c
            /\ Cardinality(PartsAt(r_prompt, "block")) = Len(r_docs)
            /\ r_prompt = IF r_script = "rag_query"
                          THEN build_prompt(r_query, r_docs)
                          ELSE make_prompt(r_query, r_docs)
        /\ (RDid("search") /\ r_docs = <<>>) => LlmCalls = {}
        /\ (RDid("search_raised") \/ RDid("embed_query_raised") \/ RDid("open_raised"))
              => LlmCalls = {}

\* llm_with_rag called the model on two retrieved fragments and finished
C27_Witness ==
    /\ r_script = "llm_with_rag"
    /\ r_pc = "done"
    /\ LlmCalls # {}
    /\ Len(r_docs) = 2

-----------------------------------------------------------------------------
(* Properties of the extractors *)

\* the extensions extract_file is to accept, in any letter case
SupportedAnyCase ==
    {<<".", "p", "d", "f">>, <<".", "P", "D", "F">>,
     <<".", "d", "o", "c", "x">>, <<".", "D", "o", "c", "X">>,
     <<".", "x", "l", "s">>, <<".", "X", "L", "S">>,
     <<".", "x", "l", "s", "x">>, <<".", "X", "l", "s", "x">>,
     <<".", "m", "d">>, <<".", "M", "d">>,
     <<".", "c", "s", "v">>, <<".", "C", "S", "V">>}

\* C25: every format extractor returns a string on every path, and when the
\* file is missing or anything inside fails that string begins with "[ERROR]";
\* so extract_file raises only for an unsupported extension, and it matches
\* the extension without regard to letter case.
C25_ExtractionFailuresAreValues ==
    (x_entry # "none") =>
        /\ x_pc \in {"extract_file", "extract_pdf", "extract_word", "extract_excel",
                     "extract_markdown", "extract_csv", "returned", "ValueError"}
        /\ (x_pc = "returned" /\ (~x_exists \/ x_failed)) =>
            /\ x_result # <<>>
            /\ x_result[1] = "[ERROR]"
        /\ x_pc = "returned" => (x_failed \/ x_exists)
        /\ x_pc = "ValueError" => (x_entry = "extract_file" /\ x_ext \notin SupportedAnyCase)
        /\ (x_entry = "extract_file" /\ x_ext \in SupportedAnyCase) => x_pc # "ValueError"

\* extract_file was given an upper-case .PDF path of a missing file
C25_Witness ==
    /\ x_entry = "extract_file"
    /\ x_ext = <<".", "P", "D", "F">>
    /\ ~x_exists
    /\ x_pc = "returned"
    /\ x_result[1] = "[ERROR]"

====
